---- MODULE Spec2Model ----
(***************************************************************************)
(* A model of research_app.py: the helpers parse_json, flatten_list and    *)
(* generate_pdf, the LangChain pipeline built by create_final_chain, and   *)
(* the Streamlit page of main().                                           *)
(*                                                                         *)
(* A Python string is a sequence of chunks (TLA+ strings): a chunk is a    *)
(* character or a fixed piece of template text.  The empty Python string   *)
(* is the empty sequence.                                                  *)
(***************************************************************************)
EXTENDS Integers, Sequences, FiniteSets, TLC

VARIABLES
    \* ---- main(): the page and its widgets
    pc,               \* where the script run stands
    google_api_key,   \* the sidebar text input
    research_topic,   \* the topic text input
    llm,              \* TRUE once initialize_llm has built the model client
    retriever,        \* TRUE once initialize_retriever has built the retriever
    errors,           \* the st.error messages on the page, in order
    success,          \* TRUE once st.success("Report generated!") is on the page
    preview,          \* what st.markdown shows: <<report>> or <<>> for nothing
    download,         \* what st.download_button offers: <<pdf bytes>> or <<>>
    \* ---- the research_summary branch of the final chain
    rphase,           \* "wait", "qgen", "retrieve", "summarize", "done", "failed"
    qgen,             \* the query-generation model call
    raw_output,       \* the text that call returned
    queries,          \* [{"question": q} for q in x]: the question values
    ret,              \* per generated query: its retrieval call
    returned,         \* per generated query: the documents the service returned
    docs,             \* per generated query: the documents kept (first ten)
    sum_inputs,       \* per generated query: [{"question":..,"doc":..}, ...]
    started,          \* per generated query: summarization calls issued
    finished,         \* per generated query: summarization calls ended
    sfault,           \* TRUE when a summarization call raised
    research_summary, \* the string flatten_list returned
    \* ---- the url_list branch of the final chain
    url,              \* the reference-list retrieval call
    url_docs,         \* the documents it kept (first ten)
    url_list,         \* the newline-joined Markdown links
    \* ---- the writer call
    final_input,      \* what the writer prompt was formatted from
    report,           \* the text the writer call returned
    \* ---- bookkeeping of external calls
    last_prompt,      \* the prompt of the most recent model call
    call_fault,       \* TRUE once a model or retrieval call of this run raised
    \* ---- the helpers applied on their own
    fl_nested,        \* flatten_list: the argument
    fl_result,        \* flatten_list: the string returned
    fl_done,          \* flatten_list: TRUE once called
    pj_raw,           \* parse_json: the argument
    pj_result,        \* parse_json: the value returned and the errors shown
    pj_done           \* parse_json: TRUE once called

vars == << pc, google_api_key, research_topic, llm, retriever, errors, success,
           preview, download, rphase, qgen, raw_output, queries, ret, returned, docs,
           sum_inputs, started, finished, sfault, research_summary, url,
           url_docs, url_list, final_input, report, last_prompt, call_fault,
           fl_nested, fl_result, fl_done, pj_raw, pj_result, pj_done >>

appVars == << pc, google_api_key, research_topic, llm, retriever, errors, success,
              preview, download, rphase, qgen, raw_output, queries, ret, returned, docs,
              sum_inputs, started, finished, sfault, research_summary, url,
              url_docs, url_list, final_input, report, last_prompt, call_fault >>

flVars == << fl_nested, fl_result, fl_done >>

pjVars == << pj_raw, pj_result, pj_done >>

(***************************************************************************)
(* Bounds of the model.                                                    *)
(***************************************************************************)
\* the most queries the model's query-generation answer lists
MaxQueries == 2

\* the most documents one retrieval call returns
MaxDocs == 11

\* the most calls of one batch a thread pool runs at a time
MaxWorkers == 2

\* flatten_list inputs: outer and inner lengths
MaxOuter == 2

MaxInner == 2

\* parse_json inputs: the number of JSON tokens
MaxRawLen == 4

(***************************************************************************)
(* Strings.                                                                *)
(***************************************************************************)
NL == "\n"

NL2 == << NL, NL >>

RECURSIVE Join(_, _)
\* sep.join(xs), for a sequence xs of strings
Join(sep, xs) ==
    IF Len(xs) = 0 THEN << >>
    ELSE IF Len(xs) = 1 THEN xs[1]
    ELSE xs[1] \o sep \o Join(sep, Tail(xs))

\* xs[:n]
Take(xs, n) == SubSeq(xs, 1, IF Len(xs) < n THEN Len(xs) ELSE n)

\* all sequences over S of length at most n
SeqsUpTo(S, n) == UNION { [1..k -> S] : k \in 0..n }

(***************************************************************************)
(* flatten_list                                                            *)
(***************************************************************************)
FlattenSingleNewline(nested_list) ==
    Join(NL2, [i \in 1..Len(nested_list) |-> Join(<< NL >>, nested_list[i])])

FlattenDropsGroupSeparator(nested_list) ==
    Join(<< >>, [i \in 1..Len(nested_list) |-> Join(NL2, nested_list[i])])

flatten_list(nested_list) ==
    Join(NL2, [i \in 1..Len(nested_list) |-> Join(NL2, nested_list[i])])

(***************************************************************************)
(* json.loads, on a text given as its sequence of JSON tokens.  A decoded  *)
(* value is a record [t, s, v]: t its Python type, s the characters of a   *)
(* str (or the lexeme of a number), v the items of a list or the           *)
(* (key, value) pairs of a dict.                                           *)
(***************************************************************************)
\* the string literals of the texts, with the characters they denote
StrToks == { "\"t\"", "\"q1\"" }

StrContent(tok) == IF tok = "\"t\"" THEN << "t" >> ELSE << "q", "1" >>

NumVal == [t |-> "int", s |-> << "1" >>, v |-> << >>]

StrVal(chars) == [t |-> "str", s |-> chars, v |-> << >>]

ListVal(items) == [t |-> "list", s |-> << >>, v |-> items]

DictVal(pairs) == [t |-> "dict", s |-> << >>, v |-> pairs]

PairVal(key, val) == [t |-> "pair", s |-> key, v |-> << val >>]

\* d[key] = val on the pairs of a dict: a repeated key keeps its place
SetMember(pairs, key, val) ==
    IF \E i \in 1..Len(pairs) : pairs[i].s = key
    THEN [i \in 1..Len(pairs) |->
             IF pairs[i].s = key THEN PairVal(key, val) ELSE pairs[i]]
    ELSE Append(pairs, PairVal(key, val))

DecodeFail == [ok |-> FALSE, val |-> NumVal, next |-> 0]

DecodeOk(val, next) == [ok |-> TRUE, val |-> val, next |-> next]

RECURSIVE ParseValue(_, _)
RECURSIVE ParseElements(_, _, _)
RECURSIVE ParseMembers(_, _, _)

\* the elements of an array after "[", up to the closing "]"
ParseElements(toks, i, acc) ==
    LET r == ParseValue(toks, i) IN
    IF ~r.ok \/ r.next > Len(toks) THEN DecodeFail
    ELSE IF toks[r.next] = "]" THEN DecodeOk(ListVal(Append(acc, r.val)), r.next + 1)
    ELSE IF toks[r.next] = "," THEN ParseElements(toks, r.next + 1, Append(acc, r.val))
    ELSE DecodeFail

\* the members of an object after "{", up to the closing "}"
ParseMembers(toks, i, acc) ==
    IF i + 1 > Len(toks) \/ toks[i] \notin StrToks \/ toks[i + 1] # ":" THEN DecodeFail
    ELSE LET r == ParseValue(toks, i + 2)
             key == StrContent(toks[i])
         IN  IF ~r.ok \/ r.next > Len(toks) THEN DecodeFail
             ELSE IF toks[r.next] = "}"
                  THEN DecodeOk(DictVal(SetMember(acc, key, r.val)), r.next + 1)
             ELSE IF toks[r.next] = ","
                  THEN ParseMembers(toks, r.next + 1, SetMember(acc, key, r.val))
             ELSE DecodeFail

\* one JSON value starting at token i
ParseValue(toks, i) ==
    IF i > Len(toks) THEN DecodeFail
    ELSE IF toks[i] = "1" THEN DecodeOk(NumVal, i + 1)
    ELSE IF toks[i] \in StrToks THEN DecodeOk(StrVal(StrContent(toks[i])), i + 1)
    ELSE IF toks[i] = "["
         THEN IF i + 1 <= Len(toks) /\ toks[i + 1] = "]"
              THEN DecodeOk(ListVal(<< >>), i + 2)
              ELSE ParseElements(toks, i + 1, << >>)
    ELSE IF toks[i] = "{"
         THEN IF i + 1 <= Len(toks) /\ toks[i + 1] = "}"
              THEN DecodeOk(DictVal(<< >>), i + 2)
              ELSE ParseMembers(toks, i + 1, << >>)
    ELSE DecodeFail

\* json.loads: one value and nothing after it, or JSONDecodeError
JsonLoads(raw_text) ==
    LET r == ParseValue(raw_text, 1) IN
    IF r.ok /\ r.next = Len(raw_text) + 1
    THEN [ok |-> TRUE, val |-> r.val]
    ELSE [ok |-> FALSE, val |-> NumVal]

(***************************************************************************)
(* parse_json: the value returned and the st.error messages it shows.      *)
(***************************************************************************)
DECODE_ERROR == "Error decoding JSON. Raw output: "

ParseJsonKeepsRaw(raw_text) ==
    LET r == JsonLoads(raw_text) IN
    IF r.ok THEN [value |-> r.val, shown |-> << >>]
    ELSE [value |-> StrVal(raw_text), shown |-> << << DECODE_ERROR >> \o raw_text >>]

ParseJsonListsOnly(raw_text) ==
    LET r == JsonLoads(raw_text) IN
    IF r.ok /\ r.val.t = "list" THEN [value |-> r.val, shown |-> << >>]
    ELSE [value |-> ListVal(<< >>), shown |-> << << DECODE_ERROR >> \o raw_text >>]

parse_json(raw_text) ==
    LET r == JsonLoads(raw_text) IN
    IF r.ok THEN [value |-> r.val, shown |-> << >>]
    ELSE [value |-> ListVal(<< >>), shown |-> << << DECODE_ERROR >> \o raw_text >>]

(***************************************************************************)
(* Iterating the parsed value, as `for q in x` does.                       *)
(***************************************************************************)
\* iter(x): the items of a list, the characters of a str, the keys of a
\* dict; an int is not iterable (TypeError)
Iterate(x) ==
    IF x.t = "list" THEN [ok |-> TRUE, items |-> x.v]
    ELSE IF x.t = "str"
         THEN [ok |-> TRUE, items |-> [i \in 1..Len(x.s) |-> StrVal(<< x.s[i] >>)]]
    ELSE IF x.t = "dict"
         THEN [ok |-> TRUE, items |-> [i \in 1..Len(x.v) |-> StrVal(x.v[i].s)]]
    ELSE [ok |-> FALSE, items |-> << >>]

\* str(v) inside a prompt: a str is its characters, anything else its repr
PyStr(v) == IF v.t = "str" THEN v.s ELSE << "repr of ", v.t >> \o v.s

(***************************************************************************)
(* Documents of the retrieval service: document d has a title, an entry    *)
(* id and a text.                                                          *)
(***************************************************************************)
Title(d) == << "T", ToString(d) >>

EntryId(d) == << "http://arxiv.org/abs/", ToString(d) >>

DocStr(d) == << "page_content of ", ToString(d) >>

\* what one retrieval call may return: nothing, one document, two documents
\* out of order, or MaxDocs documents
ShortResults == { << >>, << 1 >>, << 2, 1 >> }

RetrievalResults == ShortResults \cup { [i \in 1..MaxDocs |-> i] }

\* the answers tried for the q-th generated query: the long one on the
\* first query only
ResultsFor(q) == IF q = 1 THEN RetrievalResults ELSE ShortResults

(***************************************************************************)
(* The prompts and the model.                                              *)
(***************************************************************************)
SEARCH_HEAD == "Generate 3 Google search queries to find objective information on: "

SEARCH_TAIL == "Respond strictly as a JSON list: ['query 1', 'query 2', 'query 3']"

SUMMARY_MID == "-----------\nUsing the above text, answer in short:\n\n> "

SUMMARY_TAIL == "\n-----------\nIf the question cannot be answered, summarize all factual information, numbers, and statistics."

\* create_search_query_chain: search_prompt formatted from {"question": topic}
SearchPromptText(x) == << SEARCH_HEAD >> \o x.question \o << NL, SEARCH_TAIL >>

\* get_summary_prompt formatted from {"question": q, "doc": d}
SummaryPromptText(x) ==
    DocStr(x.doc) \o << NL, NL, SUMMARY_MID >> \o PyStr(x.question) \o << SUMMARY_TAIL >>

\* the model's answer to a summary prompt: a canned answer naming the prompt
LlmAnswer(text) == << "answer(" >> \o text \o << ")" >>

\* the i-th query of a generated list: a query of its own, then the topic
\* again, and so on
QueryLiteral(i) == IF i % 2 = 1 THEN "\"q1\"" ELSE "\"t\""

\* what the query-generation call may return, as JSON tokens: lists of at
\* most MaxQueries string literals; texts that are not JSON (the empty
\* text, prose, the single-quoted list of the prompt, a cut list); and JSON
\* of another shape (a number, a string, objects, a list of a number)
QueryGenOutputs ==
    { << "[" >> \o Join(<< "," >>, [i \in 1..n |-> << QueryLiteral(i) >>]) \o << "]" >> :
          n \in 0..MaxQueries }
    \cup { << >>, << "x" >>, << "[", "'q1'", "]" >>, << "[", "\"q1\"", "," >> }
    \cup { << "1" >>, << "\"q1\"" >>, << "{", "}" >>,
           << "{", "\"t\"", ":", "1", "}" >>, << "[", "1", "]" >> }

\* what the writer call may return: nothing, plain text, text with a
\* non-ASCII character
Reports == { << >>, << "report" >>, << "caf", "e-acute" >> }

(***************************************************************************)
(* create_summary_chain, create_web_search_chain, create_full_research     *)
(* chain, create_url_list_chain, create_final_chain: the pure steps.       *)
(***************************************************************************)
\* retrieval results are cut to the first ten
WebDocsLimit == 10

UrlDocsLimit == 10

\* line 82: [{"question": q} for q in x]
FullResearchInputs(x) == Iterate(x).items

WebSearchInputsAskTopic(x) ==
    [i \in 1..Len(x.docs) |-> [question |-> StrVal(research_topic), doc |-> x.docs[i]]]

\* line 68: [{"question": x["question"], "doc": u} for u in x["docs"]]
WebSearchInputs(x) ==
    [i \in 1..Len(x.docs) |-> [question |-> x.question, doc |-> x.docs[i]]]

\* lines 59-61: the summary assigned, then the record formatted
SummaryRecord(x) ==
    << "Title: " >> \o Title(x.doc) \o << NL, NL, "SUMMARY: " >>
        \o LlmAnswer(SummaryPromptText(x))

KeepDocsNoLimit(ds) == ds

\* line 67: retriever.get_summaries_as_docs(x["question"])[:10]
KeepDocs(ds) == Take(ds, WebDocsLimit)

\* line 89: retriever.get_summaries_as_docs(x["question"])[:10]
KeepUrlDocs(ds) == Take(ds, UrlDocsLimit)

\* lines 91-93: "\n".join(f"[{Title}]({url})" ...)
UrlListText(ds) ==
    Join(<< NL >>, [i \in 1..Len(ds) |->
                       << "[" >> \o Title(ds[i]) \o << "](" >> \o EntryId(ds[i]) \o << ")" >>])

\* lines 79-82 and 97: the records of every query, flattened
ResearchSummaryText(inputs) ==
    flatten_list([q \in 1..Len(inputs) |->
                     [i \in 1..Len(inputs[q]) |-> SummaryRecord(inputs[q][i])]])

\* line 113: the dict the writer prompt is formatted from
FinalInput(topic, summary, links) ==
    [question |-> [question |-> topic],
     research_summary |-> [question |-> topic, research_summary |-> summary],
     url_list |-> [url_list |-> links]]

NoInput == FinalInput(<< >>, << >>, << >>)

\* lines 101-107: the user message of writer_prompt
WriterPromptText(x) ==
    << "Information:", "{'question': " >> \o x.research_summary.question
        \o << ", 'research_summary': " >> \o x.research_summary.research_summary
        \o << "}", "Write a detailed research paper on: ", "{'question': " >>
        \o x.question.question
        \o << "}", "List references with clickable links from ", "{'url_list': " >>
        \o x.url_list.url_list \o << "}" >>

(***************************************************************************)
(* generate_pdf                                                            *)
(***************************************************************************)
\* unicodedata.normalize('NFKD', text).encode('ascii', 'ignore'): the
\* non-ASCII chunks are dropped
AsciiOnly(text) == SelectSeq(text, LAMBDA c : c # "e-acute")

\* lines 24-42: ValueError on empty text, else the bytes of the laid-out
\* text; has_font says whether DejaVuSans.ttf could be loaded
generate_pdf(report_text, has_font) ==
    IF report_text = << >> THEN [raised |-> TRUE, bytes |-> << >>]
    ELSE [raised |-> FALSE,
          bytes |-> << "%PDF" >> \o (IF has_font THEN report_text ELSE AsciiOnly(report_text))]

(***************************************************************************)
(* main(): the page.                                                       *)
(***************************************************************************)
ApiKeys == { << >>, << "k" >> }

Topics == { << >>, << "t" >> }

InputErrorKeyOnly(key, topic) ==
    IF key = << >> THEN << << "API Key is required." >> >> ELSE << >>

\* lines 135-140: the st.error of the first empty field, if any
InputError(key, topic) ==
    IF key = << >> THEN << << "API Key is required." >> >>
    ELSE IF topic = << >> THEN << << "Research topic is required." >> >>
    ELSE << >>

BranchesFailedIgnoresUrl(research, links) == research = "failed"

\* line 113: the dict of runnables fails when one of its branches raised
BranchesFailed(research, links) == research = "failed" \/ links = "fault"

BatchOverAtFirstResult(status) ==
    \E q \in 1..Len(status) : status[q] \in {"done", "fault"}

\* every call of the batch has ended and the batch either failed or ran all
BatchOver(status) ==
    /\ \A q \in 1..Len(status) : status[q] # "inflight"
    /\ \/ \E q \in 1..Len(status) : status[q] = "fault"
       \/ \A q \in 1..Len(status) : status[q] = "done"

\* the state of a page on which no run is under way
NoRun ==
    /\ llm = FALSE /\ retriever = FALSE
    /\ errors = << >> /\ success = FALSE /\ preview = << >> /\ download = << >>
    /\ rphase = "wait" /\ qgen = "idle" /\ raw_output = << >> /\ queries = << >>
    /\ ret = << >> /\ returned = << >> /\ docs = << >> /\ sum_inputs = << >>
    /\ started = << >> /\ finished = << >> /\ sfault = FALSE
    /\ research_summary = << >>
    /\ url = "idle" /\ url_docs = << >> /\ url_list = << >>
    /\ final_input = NoInput /\ report = << >>
    /\ last_prompt = [kind |-> "none", text |-> << >>]
    /\ call_fault = FALSE

HelpersIdle ==
    /\ fl_nested = << >> /\ fl_result = << >> /\ fl_done = FALSE
    /\ pj_raw = << >> /\ pj_result = [value |-> ListVal(<< >>), shown |-> << >>]
    /\ pj_done = FALSE

Init ==
    /\ pc = "idle"
    /\ google_api_key = << >> /\ research_topic = << >>
    /\ NoRun
    /\ HelpersIdle

\* the values of one invocation of the chain are dropped with it
ClearChain ==
    /\ qgen' = "idle" /\ raw_output' = << >> /\ queries' = << >>
    /\ ret' = << >> /\ returned' = << >> /\ docs' = << >> /\ sum_inputs' = << >>
    /\ started' = << >> /\ finished' = << >> /\ sfault' = FALSE
    /\ research_summary' = << >>
    /\ url' = "idle" /\ url_docs' = << >> /\ url_list' = << >>
    /\ final_input' = NoInput
    /\ last_prompt' = [kind |-> "none", text |-> << >>]

\* a script run starts from nothing: no output on the page, no call made
ClearRun ==
    /\ success' = FALSE /\ preview' = << >> /\ download' = << >>
    /\ report' = << >> /\ call_fault' = FALSE
    /\ ClearChain

\* lines 131-145: the button is pressed with the two fields as typed
Press(key, topic) ==
    /\ pc \in {"idle", "invalid", "ready", "fault"}
    /\ google_api_key' = key
    /\ research_topic' = topic
    /\ errors' = InputError(key, topic)
    /\ pc' = IF InputError(key, topic) # << >> THEN "invalid" ELSE "generating"
    /\ llm' = (InputError(key, topic) = << >>)
    /\ retriever' = (InputError(key, topic) = << >>)
    /\ rphase' = IF InputError(key, topic) # << >> THEN "wait" ELSE "qgen"
    /\ ClearRun
    /\ UNCHANGED << flVars, pjVars >>

\* the script runs again without the button (a field edited): the page of
\* the last run is replaced by the bare form
Rerun ==
    /\ pc \in {"invalid", "ready", "fault"}
    /\ pc' = "idle"
    /\ llm' = FALSE /\ retriever' = FALSE /\ errors' = << >> /\ rphase' = "wait"
    /\ ClearRun
    /\ UNCHANGED << google_api_key, research_topic, flVars, pjVars >>

(***************************************************************************)
(* The research_summary branch (lines 71-82, 97).                          *)
(***************************************************************************)
\* line 76: the search prompt goes to the model
QGenStart ==
    /\ pc = "generating" /\ rphase = "qgen" /\ qgen = "idle"
    /\ qgen' = "inflight"
    /\ last_prompt' = [kind |-> "search",
                       text |-> SearchPromptText([question |-> research_topic])]
    /\ UNCHANGED << pc, google_api_key, research_topic, llm, retriever, errors,
                    success, preview, download, rphase, raw_output, queries, ret,
                    returned, docs, sum_inputs, started, finished, sfault, research_summary,
                    url, url_docs, url_list, final_input, report, call_fault,
                    flVars, pjVars >>

\* lines 76 and 82: the model's text is parsed and turned into the inputs
\* of the web-search chain; an empty batch is over at once (flatten_list
\* of no records), a value that cannot be iterated raises
QGenReturn(text) ==
    /\ qgen = "inflight"
    /\ qgen' = "done"
    /\ raw_output' = text
    /\ errors' = errors \o parse_json(text).shown
    /\ LET x == parse_json(text).value
           n == Len(FullResearchInputs(x))
       IN  /\ queries' = FullResearchInputs(x)
           /\ ret' = [q \in 1..n |-> "idle"]
           /\ returned' = [q \in 1..n |-> << >>]
           /\ docs' = [q \in 1..n |-> << >>]
           /\ sum_inputs' = [q \in 1..n |-> << >>]
           /\ started' = [q \in 1..n |-> 0]
           /\ finished' = [q \in 1..n |-> 0]
           /\ rphase' = IF ~Iterate(x).ok THEN "failed"
                        ELSE IF n = 0 THEN "done"
                        ELSE "retrieve"
           /\ research_summary' = IF Iterate(x).ok /\ n = 0
                                  THEN ResearchSummaryText(<< >>)
                                  ELSE research_summary
    /\ UNCHANGED << pc, google_api_key, research_topic, llm, retriever, success,
                    preview, download, sfault, url, url_docs, url_list,
                    final_input, report, last_prompt, call_fault, flVars, pjVars >>

\* the model call raises
QGenFault ==
    /\ qgen = "inflight"
    /\ qgen' = "fault"
    /\ rphase' = "failed"
    /\ call_fault' = TRUE
    /\ UNCHANGED << pc, google_api_key, research_topic, llm, retriever, errors,
                    success, preview, download, raw_output, queries, ret, returned, docs,
                    sum_inputs, started, finished, sfault, research_summary, url,
                    url_docs, url_list, final_input, report, last_prompt,
                    flVars, pjVars >>

\* the calls of a batch in flight
Running(status) == Cardinality({ q \in 1..Len(status) : status[q] = "inflight" })

\* lines 67 and 82 (.map()): the batch hands the queries to a thread pool in
\* order; the retrieval call of query q begins
RetStart(q) ==
    /\ rphase = "retrieve" /\ ret[q] = "idle"
    /\ \A p \in 1..(q - 1) : ret[p] # "idle"
    /\ Running(ret) < MaxWorkers
    /\ ret' = [ret EXCEPT ![q] = "inflight"]
    /\ UNCHANGED << pc, google_api_key, research_topic, llm, retriever, errors,
                    success, preview, download, rphase, qgen, raw_output, queries,
                    returned, docs, sum_inputs, started, finished, sfault, research_summary,
                    url, url_docs, url_list, final_input, report, last_prompt,
                    call_fault, flVars, pjVars >>

\* line 67: the service answers a str query with documents, kept up to ten
RetReturn(q, ds) ==
    /\ ret[q] = "inflight"
    /\ queries[q].t = "str"
    /\ ret' = [ret EXCEPT ![q] = "done"]
    /\ returned' = [returned EXCEPT ![q] = ds]
    /\ docs' = [docs EXCEPT ![q] = KeepDocs(ds)]
    /\ UNCHANGED << pc, google_api_key, research_topic, llm, retriever, errors,
                    success, preview, download, rphase, qgen, raw_output, queries,
                    sum_inputs, started, finished, sfault, research_summary, url,
                    url_docs, url_list, final_input, report, last_prompt,
                    call_fault, flVars, pjVars >>

\* the retrieval call raises (always, for a query that is no str)
RetFault(q) ==
    /\ ret[q] = "inflight"
    /\ ret' = [ret EXCEPT ![q] = "fault"]
    /\ call_fault' = TRUE
    /\ UNCHANGED << pc, google_api_key, research_topic, llm, retriever, errors,
                    success, preview, download, rphase, qgen, raw_output, queries,
                    returned, docs, sum_inputs, started, finished, sfault, research_summary,
                    url, url_docs, url_list, final_input, report, last_prompt,
                    flVars, pjVars >>

\* lines 66-68: the retrieval step of the batch is over; its results go on
\* to the summarization step, or the failure of one call fails the branch
RetJoin ==
    /\ rphase = "retrieve"
    /\ BatchOver(ret)
    /\ IF \E q \in 1..Len(ret) : ret[q] = "fault"
       THEN /\ rphase' = "failed"
            /\ UNCHANGED sum_inputs
       ELSE /\ rphase' = "summarize"
            /\ sum_inputs' = [q \in 1..Len(queries) |->
                                 WebSearchInputs([question |-> queries[q],
                                                  docs |-> docs[q]])]
    /\ UNCHANGED << pc, google_api_key, research_topic, llm, retriever, errors,
                    success, preview, download, qgen, raw_output, queries, ret,
                    returned, docs, started, finished, sfault, research_summary, url,
                    url_docs, url_list, final_input, report, last_prompt,
                    call_fault, flVars, pjVars >>

\* lines 59 and 68 (.map()): the summarization batch of query q hands its
\* inputs to a thread pool in order; the model call of the next one begins
SumStart(q) ==
    /\ rphase = "summarize"
    /\ started[q] < Len(sum_inputs[q])
    /\ started[q] - finished[q] < MaxWorkers
    /\ started' = [started EXCEPT ![q] = @ + 1]
    /\ last_prompt' = [kind |-> "summary",
                       text |-> SummaryPromptText(sum_inputs[q][started[q] + 1])]
    /\ UNCHANGED << pc, google_api_key, research_topic, llm, retriever, errors,
                    success, preview, download, rphase, qgen, raw_output, queries,
                    ret, returned, docs, sum_inputs, finished, sfault, research_summary,
                    url, url_docs, url_list, final_input, report, call_fault,
                    flVars, pjVars >>

\* one of the model calls of query q in flight answers
SumReturn(q) ==
    /\ rphase = "summarize"
    /\ finished[q] < started[q]
    /\ finished' = [finished EXCEPT ![q] = @ + 1]
    /\ UNCHANGED << pc, google_api_key, research_topic, llm, retriever, errors,
                    success, preview, download, rphase, qgen, raw_output, queries,
                    ret, returned, docs, sum_inputs, started, sfault, research_summary,
                    url, url_docs, url_list, final_input, report, last_prompt,
                    call_fault, flVars, pjVars >>

\* one of the model calls of query q in flight raises
SumFault(q) ==
    /\ rphase = "summarize"
    /\ finished[q] < started[q]
    /\ finished' = [finished EXCEPT ![q] = @ + 1]
    /\ sfault' = TRUE
    /\ call_fault' = TRUE
    /\ UNCHANGED << pc, google_api_key, research_topic, llm, retriever, errors,
                    success, preview, download, rphase, qgen, raw_output, queries,
                    ret, returned, docs, sum_inputs, started, research_summary, url,
                    url_docs, url_list, final_input, report, last_prompt,
                    flVars, pjVars >>

\* lines 82 and 97: every batch is over; the records are flattened into the
\* research summary, or the failure of one call fails the branch
SumJoin ==
    /\ rphase = "summarize"
    /\ \A q \in 1..Len(started) : finished[q] = started[q]
    /\ sfault \/ \A q \in 1..Len(started) : started[q] = Len(sum_inputs[q])
    /\ IF sfault
       THEN /\ rphase' = "failed"
            /\ UNCHANGED research_summary
       ELSE /\ rphase' = "done"
            /\ research_summary' = ResearchSummaryText(sum_inputs)
    /\ UNCHANGED << pc, google_api_key, research_topic, llm, retriever, errors,
                    success, preview, download, qgen, raw_output, queries, ret,
                    returned, docs, sum_inputs, started, finished, sfault, url, url_docs,
                    url_list, final_input, report, last_prompt, call_fault,
                    flVars, pjVars >>

(***************************************************************************)
(* The url_list branch (lines 85-93).                                      *)
(***************************************************************************)
\* line 89: the retrieval call for the topic begins
UrlStart ==
    /\ pc = "generating" /\ url = "idle"
    /\ url' = "inflight"
    /\ UNCHANGED << pc, google_api_key, research_topic, llm, retriever, errors,
                    success, preview, download, rphase, qgen, raw_output, queries,
                    ret, returned, docs, sum_inputs, started, finished, sfault,
                    research_summary, url_docs, url_list, final_input, report,
                    last_prompt, call_fault, flVars, pjVars >>

\* lines 87-93: the service answers; the links are formatted
UrlReturn(ds) ==
    /\ url = "inflight"
    /\ url' = "done"
    /\ url_docs' = KeepUrlDocs(ds)
    /\ url_list' = UrlListText(KeepUrlDocs(ds))
    /\ UNCHANGED << pc, google_api_key, research_topic, llm, retriever, errors,
                    success, preview, download, rphase, qgen, raw_output, queries,
                    ret, returned, docs, sum_inputs, started, finished, sfault,
                    research_summary, final_input, report, last_prompt,
                    call_fault, flVars, pjVars >>

\* the retrieval call raises
UrlFault ==
    /\ url = "inflight"
    /\ url' = "fault"
    /\ call_fault' = TRUE
    /\ UNCHANGED << pc, google_api_key, research_topic, llm, retriever, errors,
                    success, preview, download, rphase, qgen, raw_output, queries,
                    ret, returned, docs, sum_inputs, started, finished, sfault,
                    research_summary, url_docs, url_list, final_input, report,
                    last_prompt, flVars, pjVars >>

(***************************************************************************)
(* The writer call and the rest of main() (lines 112-115, 145-150).        *)
(***************************************************************************)
\* lines 113-114: both branches are over; the writer prompt is formatted
\* from their results and goes to the model, or the run ends in the fault
\* a branch raised
ParallelJoin ==
    /\ pc = "generating"
    /\ rphase \in {"done", "failed"}
    /\ url \in {"done", "fault"}
    /\ IF BranchesFailed(rphase, url)
       THEN /\ pc' = "fault"
            /\ rphase' = "wait"
            /\ ClearChain
       ELSE /\ pc' = "writing"
            /\ final_input' = FinalInput(research_topic, research_summary, url_list)
            /\ last_prompt' =
                   [kind |-> "writer",
                    text |-> WriterPromptText(
                                 FinalInput(research_topic, research_summary, url_list))]
            /\ UNCHANGED << rphase, qgen, raw_output, queries, ret, returned, docs,
                            sum_inputs, started, finished, sfault,
                            research_summary, url, url_docs, url_list >>
    /\ UNCHANGED << google_api_key, research_topic, llm, retriever, errors,
                    success, preview, download, report, call_fault,
                    flVars, pjVars >>

\* lines 145-150: the report comes back; the success message and the
\* preview are shown, the PDF is generated and offered for download;
\* generate_pdf raises on an empty report
FinalReturn(text, has_font) ==
    /\ pc = "writing"
    /\ report' = text
    /\ success' = TRUE
    /\ preview' = << text >>
    /\ IF generate_pdf(text, has_font).raised
       THEN /\ pc' = "fault"
            /\ UNCHANGED download
       ELSE /\ pc' = "ready"
            /\ download' = << generate_pdf(text, has_font).bytes >>
    /\ rphase' = "wait"
    /\ ClearChain
    /\ UNCHANGED << google_api_key, research_topic, llm, retriever, errors,
                    call_fault, flVars, pjVars >>

\* the writer call raises
FinalFault ==
    /\ pc = "writing"
    /\ pc' = "fault"
    /\ call_fault' = TRUE
    /\ rphase' = "wait"
    /\ ClearChain
    /\ UNCHANGED << google_api_key, research_topic, llm, retriever, errors,
                    success, preview, download, report, flVars, pjVars >>

Next ==
    \/ \E key \in ApiKeys, topic \in Topics : Press(key, topic)
    \/ Rerun
    \/ QGenStart
    \/ \E text \in QueryGenOutputs : QGenReturn(text)
    \/ QGenFault
    \/ \E q \in 1..Len(ret) : RetStart(q)
    \/ \E q \in 1..Len(ret) : \E ds \in ResultsFor(q) : RetReturn(q, ds)
    \/ \E q \in 1..Len(ret) : RetFault(q)
    \/ RetJoin
    \/ \E q \in 1..Len(started) : SumStart(q)
    \/ \E q \in 1..Len(started) : SumReturn(q)
    \/ \E q \in 1..Len(started) : SumFault(q)
    \/ SumJoin
    \/ UrlStart
    \/ \E ds \in RetrievalResults : UrlReturn(ds)
    \/ UrlFault
    \/ ParallelJoin
    \/ \E text \in Reports, has_font \in BOOLEAN : FinalReturn(text, has_font)
    \/ FinalFault

Spec == Init /\ [][Next]_vars

(***************************************************************************)
(* flatten_list and parse_json applied on their own.                       *)
(***************************************************************************)
\* the strings of the flatten_list arguments: no newline in them
Elements == { << >>, << "a" >>, << "b" >> }

NestedLists == SeqsUpTo(SeqsUpTo(Elements, MaxInner), MaxOuter)

\* the tokens of the parse_json arguments
JsonTokens == { "[", "]", "{", "}", ",", ":", "1", "\"q1\"", "x" }

RawTexts == SeqsUpTo(JsonTokens, MaxRawLen)

InitFlatten ==
    /\ pc = "idle" /\ google_api_key = << >> /\ research_topic = << >>
    /\ NoRun
    /\ fl_nested \in NestedLists /\ fl_result = << >> /\ fl_done = FALSE
    /\ pj_raw = << >> /\ pj_result = [value |-> ListVal(<< >>), shown |-> << >>]
    /\ pj_done = FALSE

\* line 21
FlattenCall ==
    /\ ~fl_done
    /\ fl_result' = flatten_list(fl_nested)
    /\ fl_done' = TRUE
    /\ UNCHANGED << appVars, fl_nested, pjVars >>

SpecFlatten == InitFlatten /\ [][FlattenCall]_vars

InitJson ==
    /\ pc = "idle" /\ google_api_key = << >> /\ research_topic = << >>
    /\ NoRun
    /\ fl_nested = << >> /\ fl_result = << >> /\ fl_done = FALSE
    /\ pj_raw \in RawTexts /\ pj_result = [value |-> ListVal(<< >>), shown |-> << >>]
    /\ pj_done = FALSE

\* lines 12-17
ParseJsonCall ==
    /\ ~pj_done
    /\ pj_result' = parse_json(pj_raw)
    /\ pj_done' = TRUE
    /\ UNCHANGED << appVars, flVars, pj_raw >>

SpecJson == InitJson /\ [][ParseJsonCall]_vars

(***************************************************************************)
(* The claims.                                                             *)
(***************************************************************************)
\* the text the query-generation call returned is not JSON
InvalidJsonReturned == qgen = "done" /\ ~JsonLoads(raw_output).ok

\* the queries the returned text lists
GeneratedQueries == Iterate(parse_json(raw_output).value).items

\* the summarization calls in flight
SumsInFlight(q) == started[q] - finished[q]

RECURSIVE SumOver(_, _)
SumOver(f, n) == IF n = 0 THEN 0 ELSE f[n] + SumOver(f, n - 1)

\* the external calls in flight
InFlight ==
    (IF qgen = "inflight" THEN 1 ELSE 0)
    + Running(ret)
    + SumOver([q \in 1..Len(started) |-> SumsInFlight(q)], Len(started))
    + (IF url = "inflight" THEN 1 ELSE 0)
    + (IF pc = "writing" THEN 1 ELSE 0)

\* C1 as stated: after a query-generation answer that is not JSON the
\* branch goes on with zero queries and the writer call receives an empty
\* research summary and an empty reference list.
C1_Original ==
    InvalidJsonReturned =>
        /\ queries = << >> /\ rphase = "done"
        /\ pc = "writing" =>
              /\ final_input.research_summary.research_summary = << >>
              /\ final_input.url_list.url_list = << >>

\* C1 amended: after a query-generation answer that is not JSON the branch
\* goes on with zero queries and no per-query call, its failure-free end
\* lets the writer call be made once the topic's retrieval has answered,
\* and the writer call receives an empty research summary and the
\* reference list of the documents retrieved for the topic.
C1_Amended ==
    InvalidJsonReturned =>
        /\ queries = << >> /\ ret = << >> /\ started = << >>
        /\ rphase = "done" /\ research_summary = << >>
        /\ errors = << << DECODE_ERROR >> \o raw_output >>
        /\ (pc = "generating" /\ url = "done") =>
              (ENABLED ParallelJoin) /\ ~BranchesFailed(rphase, url)
        /\ pc = "writing" =>
              /\ last_prompt.kind = "writer"
              /\ final_input.research_summary.research_summary = << >>
              /\ final_input.url_list.url_list = UrlListText(url_docs)

C1_Witness ==
    /\ InvalidJsonReturned /\ pc = "writing"
    /\ url_docs # << >> /\ final_input.url_list.url_list # << >>

\* C2 as stated: every summarization request asks the model to answer the
\* original topic against one of the fetched documents.
C2_Original ==
    last_prompt.kind = "summary" =>
        \E q \in 1..Len(docs) : \E i \in 1..Len(docs[q]) :
            last_prompt.text =
                SummaryPromptText([question |-> StrVal(research_topic),
                                   doc |-> docs[q][i]])

\* C2 amended: every summarization request asks the model to answer the
\* generated query against a document fetched for that query, and when the
\* branch is done one request was issued per kept document of every query.
C2_Amended ==
    /\ last_prompt.kind = "summary" =>
          \E q \in 1..Len(docs) : \E i \in 1..Len(docs[q]) :
              last_prompt.text =
                  SummaryPromptText([question |-> GeneratedQueries[q],
                                     doc |-> docs[q][i]])
    /\ rphase \in {"summarize", "done"} =>
          \A q \in 1..Len(queries) :
              /\ Len(sum_inputs[q]) = Len(docs[q])
              /\ \A i \in 1..Len(docs[q]) :
                     sum_inputs[q][i] = [question |-> GeneratedQueries[q],
                                         doc |-> docs[q][i]]
    /\ rphase = "done" =>
          \A q \in 1..Len(queries) :
              started[q] = Len(docs[q]) /\ finished[q] = Len(docs[q])

C2_Witness ==
    /\ last_prompt.kind = "summary"
    /\ \E q \in 1..Len(queries) :
           /\ queries[q] # StrVal(research_topic)
           /\ started[q] > 0
           /\ last_prompt.text = SummaryPromptText(sum_inputs[q][started[q]])

\* an external call was made, or a client built, in this run
RunTouchedServices ==
    \/ llm \/ retriever
    \/ qgen # "idle" \/ url # "idle" \/ ret # << >> \/ started # << >>
    \/ last_prompt.kind # "none" \/ pc \in {"generating", "writing", "ready"}
    \/ success \/ report # << >>

\* C3: a press with an empty API key or an empty topic shows the error of
\* the first empty field and starts nothing (no client built, no call
\* made); the pipeline runs only with both fields filled.
C3_Validation ==
    /\ pc = "invalid" =>
          /\ google_api_key = << >> \/ research_topic = << >>
          /\ errors = IF google_api_key = << >>
                      THEN << << "API Key is required." >> >>
                      ELSE << << "Research topic is required." >> >>
          /\ ~RunTouchedServices
    /\ RunTouchedServices => google_api_key # << >> /\ research_topic # << >>
    /\ (pc # "idle" /\ (google_api_key = << >> \/ research_topic = << >>)) =>
          pc = "invalid"

C3_Witness ==
    pc = "invalid" /\ google_api_key # << >> /\ research_topic = << >>

\* C4: the success message or the preview is on the page only together
\* with the download.
C4_AllOrNothing ==
    (success \/ preview # << >>) => download # << >>

\* C5: once a model or retrieval call of a run has raised, the run shows no
\* success message, no preview and no download, uses no report, makes no
\* writer call, and ends in the fault: when both branches are over they
\* count as failed.
C5_FaultAborts ==
    call_fault =>
        /\ pc \in {"generating", "fault"}
        /\ ~success /\ preview = << >> /\ download = << >> /\ report = << >>
        /\ final_input = NoInput /\ last_prompt.kind # "writer"
        /\ (pc = "generating" /\ rphase \in {"done", "failed"}
               /\ url \in {"done", "fault"}) =>
              rphase = "failed" \/ url = "fault"

C5_Witness == call_fault /\ pc = "fault" /\ ~success /\ errors = << >>

\* the query-generation call listed its queries and every retrieval call of
\* the run was made and returned no document
NothingRetrieved ==
    /\ qgen = "done" /\ JsonLoads(raw_output).ok /\ JsonLoads(raw_output).val.t = "list"
    /\ rphase = "done" /\ url = "done" /\ url_docs = << >>
    /\ \A q \in 1..Len(queries) : ret[q] = "done" /\ returned[q] = << >>

\* C6 as stated: when every retrieval call returns no document the
\* reference list and the research summary the writer call receives are
\* empty, for any number of queries.
C6_Original ==
    (pc = "writing" /\ NothingRetrieved) =>
        /\ final_input.url_list.url_list = << >>
        /\ final_input.research_summary.research_summary = << >>

\* C6 amended: when every retrieval call returns no document the writer
\* call is still made, no summarization call is made, the reference list is
\* empty and the research summary holds no record: it is the separators of
\* the empty groups, two newlines for each query after the first (empty for
\* at most one query).
C6_Amended ==
    /\ (pc = "generating" /\ NothingRetrieved) =>
          (ENABLED ParallelJoin) /\ ~BranchesFailed(rphase, url)
    /\ (pc = "writing" /\ NothingRetrieved) =>
          /\ last_prompt.kind = "writer"
          /\ \A q \in 1..Len(queries) : started[q] = 0
          /\ final_input.url_list.url_list = << >>
          /\ final_input.research_summary.research_summary =
                 [i \in 1..(IF Len(queries) = 0 THEN 0 ELSE 2 * (Len(queries) - 1))
                     |-> NL]

C6_Witness ==
    /\ pc = "writing" /\ NothingRetrieved /\ Len(queries) >= 2
    /\ final_input.research_summary.research_summary # << >>

RECURSIVE SplitNL2(_, _, _)
\* text.split("\n\n"), the pieces so far in acc and the current one in cur
SplitNL2(text, cur, acc) ==
    IF text = << >> THEN Append(acc, cur)
    ELSE IF Len(text) >= 2 /\ text[1] = NL /\ text[2] = NL
         THEN SplitNL2(SubSeq(text, 3, Len(text)), << >>, Append(acc, cur))
    ELSE SplitNL2(Tail(text), Append(cur, text[1]), acc)

RECURSIVE Pieces(_)
\* the strings of the groups in order, an empty group counting as one
\* empty string
Pieces(nested) ==
    IF nested = << >> THEN << >>
    ELSE (IF Head(nested) = << >> THEN << << >> >> ELSE Head(nested))
             \o Pieces(Tail(nested))

\* C7: flatten_list joins the strings of each group, and the groups, by a
\* double newline, in order: no group gives the empty string, [["a","b"]]
\* and [["a"],["b"]] both give "a\n\nb", and splitting the result at the
\* double newlines gives back the strings of the groups in their order.
C7_Flatten ==
    fl_done =>
        /\ fl_nested = << >> => fl_result = << >>
        /\ fl_nested = << << << "a" >>, << "b" >> >> >> =>
              fl_result = << "a", NL, NL, "b" >>
        /\ fl_nested = << << << "a" >> >>, << << "b" >> >> >> =>
              fl_result = << "a", NL, NL, "b" >>
        /\ fl_nested # << >> =>
              SplitNL2(fl_result, << >>, << >>) = Pieces(fl_nested)

C7_Witness ==
    /\ fl_done /\ fl_nested = << << << "a" >> >>, << << "b" >> >> >>
    /\ fl_result = << "a", NL, NL, "b" >>

\* the literal of a str
StrLiteral(chars) == IF chars = << "t" >> THEN "\"t\"" ELSE "\"q1\""

RECURSIVE Encode(_)
\* the JSON text of a value
Encode(val) ==
    IF val.t = "int" THEN val.s
    ELSE IF val.t = "str" THEN << StrLiteral(val.s) >>
    ELSE IF val.t = "list"
         THEN << "[" >> \o Join(<< "," >>, [i \in 1..Len(val.v) |-> Encode(val.v[i])])
                  \o << "]" >>
    ELSE << "{" >>
             \o Join(<< "," >>, [i \in 1..Len(val.v) |->
                                    << StrLiteral(val.v[i].s), ":" >>
                                        \o Encode(val.v[i].v[1])])
             \o << "}" >>

RECURSIVE ValuesOfDepth(_)
\* the values over the number 1 and the string "q1", nested n deep, whose
\* text has at most MaxRawLen tokens (a dict of these has at most one key)
ValuesOfDepth(n) ==
    IF n = 0 THEN { NumVal, StrVal(<< "q", "1" >>), ListVal(<< >>), DictVal(<< >>) }
    ELSE LET S == ValuesOfDepth(n - 1)
             T == S \cup { ListVal(vs) : vs \in SeqsUpTo(S, MaxRawLen \div 2) \ {<< >>} }
                    \cup { DictVal(<< PairVal(<< "q", "1" >>, v) >>) : v \in S }
         IN  { v \in T : Len(Encode(v)) <= MaxRawLen }

JsonValues == ValuesOfDepth(MaxRawLen \div 2)

\* C8: for a text that is the JSON of a value parse_json returns that
\* value, of whatever shape, and shows no error; for any other text it
\* returns the empty list and shows the raw text in one error message.
C8_ParseJson ==
    pj_done =>
        /\ IF \E v \in JsonValues : Encode(v) = pj_raw
           THEN /\ pj_result.shown = << >>
                /\ pj_result.value \in JsonValues
                /\ Encode(pj_result.value) = pj_raw
           ELSE /\ pj_result.value = ListVal(<< >>)
                /\ pj_result.shown = << << DECODE_ERROR >> \o pj_raw >>
        /\ pj_raw \in { << "x" >>, << "[", "1", ",", "1" >>, << >> } =>
              pj_result.value = ListVal(<< >>) /\ pj_result.shown # << >>
        /\ pj_raw = << "1" >> => pj_result = [value |-> NumVal, shown |-> << >>]
        /\ pj_raw = << "{", "}" >> =>
              pj_result = [value |-> DictVal(<< >>), shown |-> << >>]

C8_Witness ==
    /\ pj_done /\ pj_raw = << "[", "1", ",", "1" >>
    /\ pj_result.shown = << << DECODE_ERROR, "[", "1", ",", "1" >> >>

\* C9 as stated: at most one external call is in flight at any time.
C9_Original == InFlight <= 1

\* C9 amended: the stages of an invocation are sequential, the calls of a
\* stage are not: the writer call is in flight alone; within the research
\* branch the query-generation call, the per-query retrieval calls and the
\* summarization calls never overlap one another; the calls of one stage
\* (retrievals of different queries, summarizations of different queries
\* or documents) run within the thread pool's size, and the reference-list
\* retrieval may overlap any call of the research branch.
C9_Amended ==
    /\ pc = "writing" => InFlight = 1
    /\ qgen = "inflight" => InFlight - (IF url = "inflight" THEN 1 ELSE 0) = 1
    /\ Running(ret) > 0 =>
          /\ \A q \in 1..Len(started) : started[q] = 0
          /\ qgen = "done"
          /\ Running(ret) <= MaxWorkers
    /\ \A q \in 1..Len(started) :
          started[q] > 0 =>
              /\ \A p \in 1..Len(ret) : ret[p] = "done"
              /\ SumsInFlight(q) <= MaxWorkers

C9_Witness ==
    /\ url = "inflight" /\ Len(started) >= 2
    /\ SumsInFlight(1) >= 2 /\ SumsInFlight(2) >= 1

\* the smaller of two numbers
Min(a, b) == IF a < b THEN a ELSE b

RECURSIVE ConcatAll(_)
ConcatAll(seqs) == IF seqs = << >> THEN << >> ELSE Head(seqs) \o ConcatAll(Tail(seqs))

\* the document numbers that follow the "Title: " marks of a text, in order
TitlesIn(text) ==
    LET marks == SelectSeq([i \in 1..Len(text) |-> i], LAMBDA i : text[i] = "Title: ")
    IN  [k \in 1..Len(marks) |-> text[marks[k] + 2]]

\* query by query, the first ten documents the service returned
FirstTenReturned ==
    ConcatAll([q \in 1..Len(returned) |->
                  [i \in 1..Min(10, Len(returned[q])) |-> ToString(returned[q][i])]])

\* C10: when the research branch is done the research summary is the
\* flattening of one record per query and document, over the queries in
\* generated order and, for each, the first ten documents its retrieval
\* call returned, in the order returned; a document returned for several
\* queries has a record for each, and the records and the summarization
\* calls both number the sum over the queries of min(10, documents
\* returned).
C10_ResearchSummary ==
    (rphase = "done" /\ queries # << >>) =>
        /\ research_summary =
               flatten_list(
                   [q \in 1..Len(queries) |->
                       [i \in 1..Min(10, Len(returned[q])) |->
                           SummaryRecord([question |-> GeneratedQueries[q],
                                          doc |-> returned[q][i]])]])
        /\ TitlesIn(research_summary) = FirstTenReturned
        /\ SumOver(started, Len(started))
               = SumOver([q \in 1..Len(returned) |-> Min(10, Len(returned[q]))],
                         Len(returned))
        /\ SumOver(finished, Len(finished)) = Len(TitlesIn(research_summary))

C10_Witness ==
    /\ rphase = "done" /\ Len(queries) >= 2
    /\ Len(returned[1]) > 10 /\ returned[2] = << 2, 1 >>
    /\ Len(TitlesIn(research_summary)) = 12

====
